---- MODULE Spec2Model ----
(***************************************************************************)
(* The in-memory version-control engine of the IDE: the recursive file     *)
(* tree, the per-branch snapshots (fileSystem, stagedFiles, commits), the  *)
(* current branch, the cached active file, and the handlers of App and     *)
(* GitPanel that change them; the copy of that state App keeps in          *)
(* localStorage and loads at mount; and the requests App sends to the AI   *)
(* service and the results it displays.                                    *)
(*                                                                         *)
(* Texts that the code trims (file names, commit messages) are sequences   *)
(* of tokens in which " " is a whitespace character.  File contents and    *)
(* branch names are opaque strings: the code never computes on them.       *)
(***************************************************************************)
EXTENDS Integers, Sequences, FiniteSets, TLC

VARIABLES
    branchStates,   \* Record<string, BranchState>
    currentBranch,  \* string
    activeFile,     \* FileItem | null
    now,            \* the last value the clock returned
    err,            \* "none", or the error that unmounted the application
    lastCall,       \* the handler invoked last, its argument and its alert
    steps,          \* number of handler invocations so far
    aiOutput,       \* string shown by AiPanel
    isLoading,      \* boolean shown by AiPanel
    pending,        \* the AI requests whose await has not resumed yet
    localStorage,   \* the items of window.localStorage the application uses
    storageFull,    \* the quota of the origin leaves no room for a new value
    terminal,       \* isTerminalVisible, the state of Terminal, its saved items
    completions,    \* the promises provideInlineCompletions returned
    debounceTimerRef, \* the timer set last, 0 before the first
    completionProviderRef \* the language of the registered provider, or "none"

vars == <<branchStates, currentBranch, activeFile, now, err, lastCall, steps,
          aiOutput, isLoading, pending, localStorage, storageFull,
          terminal, completions, debounceTimerRef, completionProviderRef>>

\* the state of the AI panel
ai == <<aiOutput, isLoading, pending>>

\* the state of the inline-completion provider
provider == <<completions, debounceTimerRef>>

-----------------------------------------------------------------------------
(* Bounds of the model *)

MaxSteps == 4       \* handler invocations in one run
MaxClock == 1       \* the clock returns 0..MaxClock

\* answers typed at the branch-name prompt and names offered to switchBranch
BranchNameInputs == {"main", "b2"}
\* file ids handed to stage, unstage and select besides those of the tree
GhostId == "ghost"
\* values the editor reports
EditValues == {"v1"}
\* texts handed to commit, and typed into the panel's message box
Messages == {<<>>, <<" ">>, <<"fix">>, <<" ", "fix">>}
\* answers typed at the file-name and folder-name prompts; the answer at the
\* language prompt is its default, which trim and toLowerCase leave as it is
NameInputs == {<<"app.js", " ">>}
\* answers typed at the branch-name prompt in the runs that reload the page
StoredBranchNameInputs == {"b2", "stagedFiles"}
\* values another page of the origin leaves under the key 'currentBranch'
StoredCurrentInputs == {"main", "gone"}
\* lines typed into the terminal
TerminalInputs == {<<>>, <<"clear">>, <<" ", "clear">>, <<"help">>, <<"ls">>,
                   <<"cat", " ", "app.js">>, <<"nope">>}
\* keys pressed in the input line of the terminal
KeyInputs == {"Enter", "ArrowUp", "ArrowDown", "a"}
\* patches handed to updateFileInTree
Patches == {[content |-> "p"], [content |-> "p", gitStatus |-> "modified"],
            [name |-> <<"renamed">>]}
\* the features of the AI panel and the questions typed into it
AiFeatures == {"explain"}
Questions == {"why?"}

-----------------------------------------------------------------------------
(* Values *)

Null == [type |-> "null"]

File(id, name, language, content, gitStatus) ==
    [type |-> "file", id |-> id, name |-> name, language |-> language,
     content |-> content, gitStatus |-> gitStatus]

Folder(id, name, children) ==
    [type |-> "folder", id |-> id, name |-> name, children |-> children]

INITIAL_FILE_SYSTEM ==
    Folder("root", <<"ai-code-assistant">>, <<
        Folder("src-folder", <<"src">>, <<
            File("user-service-ts", <<"user-service.ts">>, "typescript",
                 "ts0", "unmodified"),
            File("data-analyzer-py", <<"data_analyzer.py">>, "python",
                 "py0", "unmodified")
        >>)
    >>)

\* JavaScript's { ...item, ...updates }
Merge(item, updates) ==
    [f \in (DOMAIN item) \cup (DOMAIN updates) |->
        IF f \in DOMAIN updates THEN updates[f] ELSE item[f]]

\* String.prototype.trim on a text
RECURSIVE trimStart(_)
trimStart(s) ==
    IF s # <<>> /\ Head(s) = " " THEN trimStart(Tail(s)) ELSE s

RECURSIVE trimEnd(_)
trimEnd(s) ==
    IF s # <<>> /\ s[Len(s)] = " " THEN trimEnd(SubSeq(s, 1, Len(s) - 1)) ELSE s

trim(s) == trimEnd(trimStart(s))

-----------------------------------------------------------------------------
(* Recursive tree helpers *)

RECURSIVE findFileInTree(_, _)
findFileInTree(item, fileId) ==
    IF item.type = "file" /\ item.id = fileId THEN item
    ELSE IF item.type = "folder" THEN
        LET RECURSIVE firstFound(_)
            firstFound(i) ==
                IF i > Len(item.children) THEN Null
                ELSE LET found == findFileInTree(item.children[i], fileId)
                     IN  IF found # Null THEN found ELSE firstFound(i + 1)
        IN  firstFound(1)
    ELSE Null

\* a variant that does not look at the type of the item
RECURSIVE updateFileInTree_anyType(_, _, _)
updateFileInTree_anyType(item, fileId, updates) ==
    IF item.id = fileId THEN Merge(item, updates)
    ELSE IF item.type = "folder" THEN
        [item EXCEPT !.children =
            [i \in 1..Len(item.children) |->
                updateFileInTree_anyType(item.children[i], fileId, updates)]]
    ELSE item

RECURSIVE updateFileInTree(_, _, _)
updateFileInTree(item, fileId, updates) ==
    IF item.type = "file" /\ item.id = fileId THEN Merge(item, updates)
    ELSE IF item.type = "folder" THEN
        [item EXCEPT !.children =
            [i \in 1..Len(item.children) |->
                updateFileInTree(item.children[i], fileId, updates)]]
    ELSE item

RECURSIVE findChangedFiles(_)
findChangedFiles(item) ==
    IF item.type = "file" /\ item.gitStatus # "unmodified" THEN <<item>>
    ELSE IF item.type = "folder" THEN
        LET RECURSIVE each(_)
            each(i) ==
                IF i > Len(item.children) THEN <<>>
                ELSE findChangedFiles(item.children[i]) \o each(i + 1)
        IN  each(1)
    ELSE <<>>

\* a variant that sets the status of every file
RECURSIVE updateStatusesInTree_everyFile(_, _, _)
updateStatusesInTree_everyFile(item, fileIds, newStatus) ==
    IF item.type = "file"
    THEN [item EXCEPT !.gitStatus = newStatus]
    ELSE IF item.type = "folder" THEN
        [item EXCEPT !.children =
            [i \in 1..Len(item.children) |->
                updateStatusesInTree_everyFile(item.children[i], fileIds,
                                               newStatus)]]
    ELSE item

\* a variant that does not descend into folders
updateStatusesInTree_noRecurse(item, fileIds, newStatus) ==
    IF item.type = "file" /\ item.id \in fileIds
    THEN [item EXCEPT !.gitStatus = newStatus]
    ELSE item

RECURSIVE updateStatusesInTree(_, _, _)
updateStatusesInTree(item, fileIds, newStatus) ==
    IF item.type = "file" /\ item.id \in fileIds
    THEN [item EXCEPT !.gitStatus = newStatus]
    ELSE IF item.type = "folder" THEN
        [item EXCEPT !.children =
            [i \in 1..Len(item.children) |->
                updateStatusesInTree(item.children[i], fileIds, newStatus)]]
    ELSE item

\* every file node of a tree, in tree order
RECURSIVE allFiles(_)
allFiles(item) ==
    IF item.type = "file" THEN <<item>>
    ELSE LET RECURSIVE each(_)
             each(i) ==
                 IF i > Len(item.children) THEN <<>>
                 ELSE allFiles(item.children[i]) \o each(i + 1)
         IN  each(1)

Range(s) == {s[i] : i \in DOMAIN s}

fileIdsOf(tree) == {f.id : f \in Range(allFiles(tree))}

-----------------------------------------------------------------------------
(* localStorage *)

\* The text of an item is modelled by what reading it yields: Null for an
\* item that is absent (getItem returns null), Empty for '', Word(v) for the
\* bare string v, Json(v) for a text that JSON.parse turns into v, Garbage
\* for a text JSON.parse rejects.
Empty == [type |-> "empty"]
Garbage == [type |-> "garbage"]
Word(v) == [type |-> "word", value |-> v]
Json(v) == [type |-> "json", value |-> v]

\* the keys App writes; 'codeSnippets' belongs to the snippet list
StorageKeys == {"branchStates", "currentBranch", "activeFileId"}

EmptyStorage == [k \in StorageKeys |-> Null]

\* !!item of JavaScript, for the result of getItem
truthy(item) == item.type \notin {"null", "empty"}

\* Array.from(set): the members in the order of insertion, which the model
\* of a Set does not keep; some order is chosen
RECURSIVE ArrayFrom(_)
ArrayFrom(set) ==
    IF set = {} THEN <<>>
    ELSE LET x == CHOOSE x \in set : TRUE
         IN  <<x>> \o ArrayFrom(set \ {x})

\* JSON.stringify(branchStates, replacer): the replacer turns every Set, that
\* is every stagedFiles, into an array; strings, arrays and plain objects
\* are written as they are
dataToSave(states) ==
    Json([b \in DOMAIN states |->
             [states[b] EXCEPT !.stagedFiles = ArrayFrom(@)]])

\* the values the persistence effects write
savedItems(states, current, file) ==
    [k \in StorageKeys |->
        CASE k = "branchStates" -> dataToSave(states)
          [] k = "currentBranch" -> Word(current)
          [] k = "activeFileId" ->
                 IF file = Null THEN Empty ELSE Word(file.id)]

Threw == [ok |-> FALSE]
Returned(v) == [ok |-> TRUE, value |-> v]

\* the reviver is called for every key of the parsed value, whatever holds
\* it; the keys that depend on the data are the branch names.  For a branch
\* named 'stagedFiles' the value is a snapshot object, and new Set(object)
\* throws a TypeError
reviverThrows(parsed) == "stagedFiles" \in DOMAIN parsed

\* JSON.parse(savedBranches, reviver): the reviver turns the value of every
\* key 'stagedFiles' into new Set(value)
parse(savedBranches) ==
    IF savedBranches.type # "json" THEN Threw
    ELSE LET parsed == savedBranches.value
         IN  IF reviverThrows(parsed) THEN Threw
             ELSE Returned([b \in DOMAIN parsed |->
                      [parsed[b] EXCEPT !.stagedFiles = Range(@)]])

-----------------------------------------------------------------------------
(* Initial state *)

defaultState ==
    [branches |-> [b \in {"main"} |->
                      [fileSystem |-> INITIAL_FILE_SYSTEM,
                       stagedFiles |-> {},
                       commits |-> <<>>]],
     current |-> "main"]

\* savedBranches && savedCurrent, and JSON.parse does not throw
storedStateUsable(savedBranches, savedCurrent) ==
    /\ truthy(savedBranches)
    /\ truthy(savedCurrent)
    /\ parse(savedBranches).ok

getInitialState(storage) ==
    LET savedBranches == storage["branchStates"]
        savedCurrent == storage["currentBranch"]
    IN  IF storedStateUsable(savedBranches, savedCurrent)
        THEN [branches |-> parse(savedBranches).value,
              current |-> savedCurrent.value]
        ELSE defaultState

\* the initializer of the activeFile state
initialActiveFile(fileSystem, storage) ==
    LET savedActiveFileId == storage["activeFileId"]
    IN  IF truthy(savedActiveFileId)
        THEN findFileInTree(fileSystem, savedActiveFileId.value)
        ELSE findFileInTree(fileSystem, "user-service-ts")

\* the first visit: nothing is stored, App mounts with the default state and
\* its persistence effects store it
Init ==
    /\ branchStates = getInitialState(EmptyStorage).branches
    /\ currentBranch = getInitialState(EmptyStorage).current
    /\ activeFile = initialActiveFile(INITIAL_FILE_SYSTEM, EmptyStorage)
    /\ now = 0
    /\ err = "none"
    /\ lastCall = [op |-> "init", arg |-> "", alert |-> "none"]
    /\ steps = 0
    /\ aiOutput = ""
    /\ isLoading = FALSE
    /\ pending = {}
    /\ localStorage = savedItems(branchStates, currentBranch, activeFile)
    /\ storageFull = FALSE
    /\ terminal = [visible |-> FALSE, input |-> <<>>, output |-> <<>>,
                   history |-> <<>>, historyIndex |-> -1,
                   saved |-> [terminalOutput |-> Null,
                              terminalHistory |-> Null]]
    /\ completions = <<>>
    /\ debounceTimerRef = 0
    /\ completionProviderRef = "none"

-----------------------------------------------------------------------------
(* Derived values of a render *)

currentBranchState == branchStates[currentBranch]

\* a handler runs only while the application is mounted
Mounted == err = "none" /\ steps < MaxSteps

Called(op, arg, alert) ==
    /\ lastCall' = [op |-> op, arg |-> arg, alert |-> alert]
    /\ steps' = steps + 1

\* The render that follows a handler, and the persistence effects after it.
\* The render reads branchStates[currentBranch].fileSystem: with a current
\* branch that is no key it throws, and React unmounts the application
\* before any effect runs.  An effect runs when its dependency changed; its
\* setItem throws when the storage has no room for a value that differs from
\* the stored one, and the error of an effect unmounts the application too.
\* the persistence effects whose dependency the handler changed
effectsToRun ==
    {k \in StorageKeys :
        \/ k = "branchStates" /\ branchStates' # branchStates
        \/ k = "currentBranch" /\ currentBranch' # currentBranch
        \/ k = "activeFileId" /\ activeFile' # activeFile}

\* the values they hand to setItem
itemsToSet == savedItems(branchStates', currentBranch', activeFile')

\* localStorage.setItem throws a QuotaExceededError in one of them
setItemThrows ==
    storageFull /\ \E k \in effectsToRun : itemsToSet[k] # localStorage[k]

\* the effect on [activeFile?.id, activeFile?.language] ran: its cleanup
\* disposes of the provider, and with an active file it registers a new one
providerEffectRuns ==
    \/ (activeFile' = Null) # (activeFile = Null)
    \/ /\ activeFile' # Null
       /\ activeFile # Null
       /\ \/ activeFile'.id # activeFile.id
          \/ activeFile'.language # activeFile.language

render ==
    /\ UNCHANGED storageFull
    /\ IF currentBranch' \notin DOMAIN branchStates'
       THEN /\ err' = "TypeError"
            /\ UNCHANGED localStorage
       ELSE IF setItemThrows
       THEN /\ err' = "QuotaExceededError"
            /\ UNCHANGED localStorage
       ELSE /\ err' = "none"
            /\ localStorage' =
                   [k \in StorageKeys |->
                       IF k \in effectsToRun THEN itemsToSet[k]
                       ELSE localStorage[k]]
    /\ completionProviderRef' =
           IF err' # "none" THEN "none"
           ELSE IF ~providerEffectRuns THEN completionProviderRef
           ELSE IF activeFile' = Null THEN "none"
           ELSE activeFile'.language

\* a variant that writes the new snapshot under every branch name
setCurrentBranchState_allBranches(next) ==
    branchStates' = [b \in DOMAIN branchStates |-> next]

setCurrentBranchState(next) ==
    branchStates' = [branchStates EXCEPT ![currentBranch] = next]

\* the derived views App hands to GitPanel
allChangedFiles == findChangedFiles(currentBranchState.fileSystem)

unstagedFiles ==
    SelectSeq(allChangedFiles,
              LAMBDA f : f.id \notin currentBranchState.stagedFiles)

stagedFileItems ==
    {findFileInTree(currentBranchState.fileSystem, id) :
        id \in currentBranchState.stagedFiles} \ {Null}

allBranches == DOMAIN branchStates

-----------------------------------------------------------------------------
(* Inputs of the handlers *)

\* ids a caller can hand to stage, unstage and select
FileIdInputs ==
    IF currentBranch \in DOMAIN branchStates
    THEN fileIdsOf(currentBranchState.fileSystem) \cup {GhostId}
    ELSE {GhostId}

\* window.prompt: cancelled (null) or the text typed
Cancelled == [ok |-> FALSE]
Typed(text) == [ok |-> TRUE, text |-> text]

\* !answer of JavaScript, for a prompt answer
Falsy(answer, empty) == ~answer.ok \/ answer.text = empty

\* the n-th id made from a clock value
IdOf(prefix, t) == prefix \o ToString(t)

-----------------------------------------------------------------------------
(* File handlers of App *)

handleFileSelect(fileId) ==
    /\ Mounted
    /\ activeFile' = findFileInTree(currentBranchState.fileSystem, fileId)
    /\ aiOutput' = ""
    /\ Called("handleFileSelect", fileId, "none")
    /\ UNCHANGED <<branchStates, currentBranch, now, isLoading, pending>>
    /\ UNCHANGED <<terminal, provider>>
    /\ render

handleCreateFile(filename, language) ==
    /\ Mounted
    /\ IF Falsy(filename, <<>>)
       THEN /\ Called("handleCreateFile", "", "none")
            /\ UNCHANGED <<branchStates, currentBranch, activeFile, now>>
       ELSE /\ \E t \in now..MaxClock :
                 LET newFile == File(IdOf("file-", t), trim(filename.text),
                                     IF Falsy(language, "") THEN "plaintext"
                                     ELSE language.text,
                                     "", "new")
                     prev == currentBranchState
                 IN  /\ setCurrentBranchState(
                            [prev EXCEPT !.fileSystem.children =
                                Append(@, newFile)])
                     /\ activeFile' = newFile
                     /\ now' = t
                     /\ Called("handleCreateFile", newFile.id, "none")
            /\ UNCHANGED currentBranch
    /\ UNCHANGED ai
    /\ UNCHANGED <<terminal, provider>>
    /\ render

handleCreateFolder(folderName) ==
    /\ Mounted
    /\ IF Falsy(folderName, <<>>)
       THEN /\ Called("handleCreateFolder", "", "none")
            /\ UNCHANGED <<branchStates, currentBranch, activeFile, now>>
       ELSE /\ \E t \in now..MaxClock :
                 LET newFolder == Folder(IdOf("folder-", t),
                                         trim(folderName.text), <<>>)
                     prev == currentBranchState
                 IN  /\ setCurrentBranchState(
                            [prev EXCEPT !.fileSystem.children =
                                Append(@, newFolder)])
                     /\ now' = t
                     /\ Called("handleCreateFolder", newFolder.id, "none")
            /\ UNCHANGED <<currentBranch, activeFile>>
    /\ UNCHANGED ai
    /\ UNCHANGED <<terminal, provider>>
    /\ render

\* value: the editor's text, or undefined
Undefined == [defined |-> FALSE]
Value(text) == [defined |-> TRUE, text |-> text]

handleCodeChange(value) ==
    /\ Mounted
    /\ IF ~value.defined \/ activeFile = Null
       THEN /\ Called("handleCodeChange", "", "none")
            /\ UNCHANGED <<branchStates, currentBranch, activeFile, now>>
       ELSE LET updates ==
                    IF activeFile.gitStatus = "unmodified"
                    THEN [content |-> value.text, gitStatus |-> "modified"]
                    ELSE [content |-> value.text]
                prev == currentBranchState
            IN  /\ setCurrentBranchState(
                       [prev EXCEPT !.fileSystem =
                           updateFileInTree(@, activeFile.id, updates)])
                /\ activeFile' = Merge(activeFile, updates)
                /\ Called("handleCodeChange", value.text, "none")
                /\ UNCHANGED <<currentBranch, now>>
    /\ UNCHANGED ai
    /\ UNCHANGED <<terminal, provider>>
    /\ render

-----------------------------------------------------------------------------
(* Git and branching handlers of App *)

\* a variant that stages fileId in place of what was staged
handleStage_replace(fileId) ==
    /\ Mounted
    /\ setCurrentBranchState(
           [currentBranchState EXCEPT !.stagedFiles = {fileId}])
    /\ Called("handleStage", fileId, "none")
    /\ UNCHANGED <<currentBranch, activeFile, now, ai>>
    /\ UNCHANGED <<terminal, provider>>
    /\ render

handleStage(fileId) ==
    /\ Mounted
    /\ setCurrentBranchState(
           [currentBranchState EXCEPT !.stagedFiles = @ \cup {fileId}])
    /\ Called("handleStage", fileId, "none")
    /\ UNCHANGED <<currentBranch, activeFile, now, ai>>
    /\ UNCHANGED <<terminal, provider>>
    /\ render

\* a variant that unstages everything
handleUnstage_clear(fileId) ==
    /\ Mounted
    /\ setCurrentBranchState(
           [currentBranchState EXCEPT !.stagedFiles = {}])
    /\ Called("handleUnstage", fileId, "none")
    /\ UNCHANGED <<currentBranch, activeFile, now, ai>>
    /\ UNCHANGED <<terminal, provider>>
    /\ render

handleUnstage(fileId) ==
    /\ Mounted
    /\ setCurrentBranchState(
           [currentBranchState EXCEPT !.stagedFiles = @ \ {fileId}])
    /\ Called("handleUnstage", fileId, "none")
    /\ UNCHANGED <<currentBranch, activeFile, now, ai>>
    /\ UNCHANGED <<terminal, provider>>
    /\ render

\* a variant that adds the changed files to what is staged
handleStageAll_union ==
    /\ Mounted
    /\ LET allChangedIds ==
               {f.id : f \in Range(findChangedFiles(currentBranchState.fileSystem))}
       IN  setCurrentBranchState(
               [currentBranchState EXCEPT !.stagedFiles = @ \cup allChangedIds])
    /\ Called("handleStageAll", "", "none")
    /\ UNCHANGED <<currentBranch, activeFile, now, ai>>
    /\ UNCHANGED <<terminal, provider>>
    /\ render

handleStageAll ==
    /\ Mounted
    /\ LET allChangedIds ==
               {f.id : f \in Range(findChangedFiles(currentBranchState.fileSystem))}
       IN  setCurrentBranchState(
               [currentBranchState EXCEPT !.stagedFiles = allChangedIds])
    /\ Called("handleStageAll", "", "none")
    /\ UNCHANGED <<currentBranch, activeFile, now, ai>>
    /\ UNCHANGED <<terminal, provider>>
    /\ render

\* a variant of the guard that never refuses
noFilesStaged_never == FALSE

\* currentBranchState.stagedFiles.size === 0
noFilesStaged == currentBranchState.stagedFiles = {}

handleCommit(message) ==
    /\ Mounted
    /\ IF noFilesStaged
       THEN /\ Called("handleCommit", message, "No files staged to commit.")
            /\ UNCHANGED <<branchStates, currentBranch, activeFile, now>>
       ELSE /\ \E t1 \in now..MaxClock : \E t2 \in t1..MaxClock :
                 LET newCommit == [id |-> IdOf("commit-", t1),
                                   message |-> message,
                                   timestamp |-> t2]
                     prev == currentBranchState
                 IN  /\ setCurrentBranchState(
                            [prev EXCEPT
                                !.commits = <<newCommit>> \o @,
                                !.fileSystem = updateStatusesInTree(
                                    @, prev.stagedFiles, "unmodified"),
                                !.stagedFiles = {}])
                     /\ now' = t2
            /\ Called("handleCommit", message, "none")
            /\ UNCHANGED <<currentBranch, activeFile>>
    /\ UNCHANGED ai
    /\ UNCHANGED <<terminal, provider>>
    /\ render

\* a variant of the guard that refuses the empty name only
refused_emptyOnly(newBranchName) == Falsy(newBranchName, "")

\* !newBranchName || branchStates[newBranchName]
refused(newBranchName) ==
    \/ Falsy(newBranchName, "")
    \/ newBranchName.text \in DOMAIN branchStates

\* a variant in which the new branch starts with nothing staged
handleCreateBranch_nothingStaged(newBranchName) ==
    /\ Mounted
    /\ IF refused(newBranchName)
       THEN /\ IF Falsy(newBranchName, "")
               THEN Called("handleCreateBranch", "", "Invalid branch name.")
               ELSE Called("handleCreateBranch", newBranchName.text,
                           "Branch already exists.")
            /\ UNCHANGED <<branchStates, currentBranch>>
       ELSE /\ branchStates' =
                   [b \in DOMAIN branchStates \cup {newBranchName.text} |->
                       IF b = newBranchName.text
                       THEN [branchStates[currentBranch] EXCEPT
                                !.stagedFiles = {}]
                       ELSE branchStates[b]]
            /\ currentBranch' = newBranchName.text
            /\ Called("handleCreateBranch", newBranchName.text, "none")
    /\ UNCHANGED <<activeFile, now, ai>>
    /\ UNCHANGED <<terminal, provider>>
    /\ render

handleCreateBranch(newBranchName) ==
    /\ Mounted
    /\ IF refused(newBranchName)
       THEN /\ IF Falsy(newBranchName, "")
               THEN Called("handleCreateBranch", "", "Invalid branch name.")
               ELSE Called("handleCreateBranch", newBranchName.text,
                           "Branch already exists.")
            /\ UNCHANGED <<branchStates, currentBranch>>
       ELSE /\ branchStates' =
                   [b \in DOMAIN branchStates \cup {newBranchName.text} |->
                       IF b = newBranchName.text
                       THEN branchStates[currentBranch]
                       ELSE branchStates[b]]
            /\ currentBranch' = newBranchName.text
            /\ Called("handleCreateBranch", newBranchName.text, "none")
    /\ UNCHANGED <<activeFile, now, ai>>
    /\ UNCHANGED <<terminal, provider>>
    /\ render

\* newBranchFS.children.find(c => c.type === 'file') || null
firstFileChild(folder) ==
    LET files == SelectSeq(folder.children, LAMBDA c : c.type = "file")
    IN  IF files = <<>> THEN Null ELSE Head(files)

\* a variant that keeps the cached file of the branch left
reresolved_stale(newBranchFS, newActiveFile) == activeFile

\* newActiveFile || (newBranchFS.children.find(...) || null)
reresolved(newBranchFS, newActiveFile) ==
    IF newActiveFile # Null THEN newActiveFile
    ELSE firstFileChild(newBranchFS)

\* a variant that takes what is staged along to the branch entered
handleSwitchBranch_carryStaged(branchName) ==
    /\ Mounted
    /\ Called("handleSwitchBranch", branchName, "none")
    /\ IF branchName = currentBranch
       THEN UNCHANGED <<branchStates, currentBranch, activeFile, now>>
       ELSE IF branchName \notin DOMAIN branchStates
       THEN /\ currentBranch' = branchName
            /\ UNCHANGED <<branchStates, activeFile, now>>
       ELSE LET newBranchFS == branchStates[branchName].fileSystem
                newActiveFile ==
                    IF activeFile # Null
                    THEN findFileInTree(newBranchFS, activeFile.id)
                    ELSE findFileInTree(newBranchFS, "user-service-ts")
            IN  /\ currentBranch' = branchName
                /\ activeFile' = reresolved(newBranchFS, newActiveFile)
                /\ branchStates' =
                       [branchStates EXCEPT ![branchName].stagedFiles =
                           currentBranchState.stagedFiles]
                /\ UNCHANGED now
    /\ UNCHANGED ai
    /\ UNCHANGED <<terminal, provider>>
    /\ render

handleSwitchBranch(branchName) ==
    /\ Mounted
    /\ Called("handleSwitchBranch", branchName, "none")
    /\ IF branchName = currentBranch
       THEN UNCHANGED <<branchStates, currentBranch, activeFile, now>>
       ELSE IF branchName \notin DOMAIN branchStates
       THEN \* setCurrentBranch is queued, then branchStates[branchName].fileSystem
            \* throws; the next render reads branchStates[currentBranch].fileSystem
            /\ currentBranch' = branchName
            /\ UNCHANGED <<branchStates, activeFile, now>>
       ELSE LET newBranchFS == branchStates[branchName].fileSystem
                newActiveFile ==
                    IF activeFile # Null
                    THEN findFileInTree(newBranchFS, activeFile.id)
                    ELSE findFileInTree(newBranchFS, "user-service-ts")
            IN  /\ currentBranch' = branchName
                /\ activeFile' = reresolved(newBranchFS, newActiveFile)
                /\ UNCHANGED <<branchStates, now>>
    /\ UNCHANGED ai
    /\ UNCHANGED <<terminal, provider>>
    /\ render

-----------------------------------------------------------------------------
(* The commit button of GitPanel *)

GitPanel_handleCommit(commitMessage) ==
    /\ Mounted
    /\ IF trim(commitMessage) # <<>> /\ stagedFileItems # {}
       THEN handleCommit(trim(commitMessage))
       ELSE /\ Called("GitPanel.handleCommit", commitMessage, "none")
            /\ UNCHANGED <<branchStates, currentBranch, activeFile, now, ai>>
            /\ UNCHANGED <<terminal, provider>>
            /\ render

-----------------------------------------------------------------------------
(* AI handlers of App *)

\* a request to the AI service: the step that sent it and the file that was
\* open then
Request(kind) == [id |-> steps, kind |-> kind, file |-> activeFile.id]

\* what runAiTask and runAiQuery return: the text of the response to a
\* prompt made from the file, or the message of the error they caught
Results(request) == {"answer:" \o request.file, "An error occurred"}

\* the handler up to its await; the editor is mounted while a file is open
handleAiAction(feature) ==
    /\ Mounted
    /\ IF activeFile = Null
       THEN UNCHANGED ai
       ELSE /\ isLoading' = TRUE
            /\ aiOutput' = ""
            /\ pending' = pending \cup {Request("action")}
    /\ Called("handleAiAction", feature, "none")
    /\ UNCHANGED <<branchStates, currentBranch, activeFile, now>>
    /\ UNCHANGED <<terminal, provider>>
    /\ render

handleAiQuery(question) ==
    /\ Mounted
    /\ IF activeFile = Null
       THEN UNCHANGED ai
       ELSE /\ isLoading' = TRUE
            /\ aiOutput' = ""
            /\ pending' = pending \cup {Request("query")}
    /\ Called("handleAiQuery", question, "none")
    /\ UNCHANGED <<branchStates, currentBranch, activeFile, now>>
    /\ UNCHANGED <<terminal, provider>>
    /\ render

\* the rest of handleAiAction and handleAiQuery, after the await
aiResult(request, result) ==
    /\ Mounted
    /\ request \in pending
    /\ aiOutput' = result
    /\ isLoading' = FALSE
    /\ pending' = pending \ {request}
    /\ Called("aiResult", request.file, "none")
    /\ UNCHANGED <<branchStates, currentBranch, activeFile, now>>
    /\ UNCHANGED <<terminal, provider>>
    /\ render

-----------------------------------------------------------------------------
(* Terminal *)

\* Terminal exists while isTerminalVisible holds.  The texts it handles (the
\* input line, the contents of the output lines) are sequences of tokens.

\* the items Terminal keeps in localStorage, absent before its first mount
NoTerminalItems == [terminalOutput |-> Null, terminalHistory |-> Null]

\* a useState initializer of Terminal: the parsed item, [] without one
savedOr(item) == IF truthy(item) THEN item.value ELSE <<>>

\* the effect on [output, history]: the two setItem in one try; the first
\* that has no room throws, and the catch logs it
saveTerminal(output, history, saved) ==
    IF storageFull /\ Json(output) # saved.terminalOutput THEN saved
    ELSE IF storageFull /\ Json(history) # saved.terminalHistory
    THEN [saved EXCEPT !.terminalOutput = Json(output)]
    ELSE [terminalOutput |-> Json(output), terminalHistory |-> Json(history)]

TerminalUnmounted(saved) ==
    [visible |-> FALSE, input |-> <<>>, output |-> <<>>, history |-> <<>>,
     historyIndex |-> -1, saved |-> saved]

TerminalMounted(saved) ==
    LET output == savedOr(saved.terminalOutput)
        history == savedOr(saved.terminalHistory)
    IN  [visible |-> TRUE, input |-> <<>>, output |-> output,
         history |-> history, historyIndex |-> -1,
         saved |-> saveTerminal(output, history, saved)]

RECURSIVE findFileByName(_, _)
findFileByName(item, name) ==
    IF item.type = "file" /\ item.name = name THEN item
    ELSE IF item.type = "folder" THEN
        LET RECURSIVE firstFound(_)
            firstFound(i) ==
                IF i > Len(item.children) THEN Null
                ELSE LET found == findFileByName(item.children[i], name)
                     IN  IF found # Null THEN found ELSE firstFound(i + 1)
        IN  firstFound(1)
    ELSE Null

RECURSIVE generateTreeString(_, _)
generateTreeString(item, prefix) ==
    LET line == prefix
                \o <<IF item.type = "folder" THEN "folder-icon"
                     ELSE "file-icon", " ">>
                \o item.name \o <<"\n">>
        RECURSIVE each(_)
        each(i) ==
            IF i > Len(item.children) THEN <<>>
            ELSE generateTreeString(
                     item.children[i],
                     prefix \o <<IF i = Len(item.children) THEN "+-- "
                                 ELSE "|-- ">>)
                 \o each(i + 1)
    IN  IF item.type = "folder" THEN line \o each(1) ELSE line

\* String.prototype.trim of a text that ends with line feeds
trimLines(s) ==
    LET RECURSIVE end(_)
        end(t) == IF t # <<>> /\ t[Len(t)] \in {" ", "\n"}
                  THEN end(SubSeq(t, 1, Len(t) - 1)) ELSE t
    IN  end(trimStart(s))

\* the string processCommand returns, and whether it called setOutput([]).
\* command.trim().split(' '): the word before the first blank is cmd, the
\* word after it args[0], '' when a second blank follows at once
processCommand(command, fileSystem) ==
    LET words == trim(command)
        cmd == IF words = <<>> THEN "" ELSE Head(words)
        noArgs == Len(words) <= 1
        arg0 == IF noArgs \/ words[3] = " " THEN "" ELSE words[3]
        name == IF arg0 = "" THEN <<>> ELSE <<arg0>>
        file == findFileByName(fileSystem, name)
        says(text) == [response |-> text, setOutput |-> FALSE]
    IN  CASE cmd = "help" ->
                 says(<<"Available commands: ls, cat [filename], run [filename], clear, help">>)
          [] cmd = "ls" -> says(trimLines(generateTreeString(fileSystem, <<>>)))
          [] cmd = "cat" ->
                 IF noArgs THEN says(<<"Usage: cat [filename]">>)
                 ELSE IF file # Null
                 THEN says(IF file.content = "" THEN <<>> ELSE <<file.content>>)
                 ELSE says(<<"Error: File not found: ", arg0>>)
          [] cmd = "run" ->
                 IF noArgs THEN says(<<"Usage: run [filename]">>)
                 ELSE IF file # Null
                 THEN says(<<"Simulating execution of ">> \o file.name
                           \o <<"...\nExecution complete.">>)
                 ELSE says(<<"Error: File not found: ", arg0>>)
          [] cmd = "clear" -> [response |-> <<>>, setOutput |-> TRUE]
          [] cmd = "" -> says(<<>>)
          [] OTHER -> says(<<"command not found: ", cmd>>)

\* App hands the tree of the current branch to Terminal; the handlers of
\* Terminal change no state of App and cause no render of it
TerminalOnly ==
    UNCHANGED <<branchStates, currentBranch, activeFile, now, err, ai,
                localStorage, storageFull, provider, completionProviderRef>>

handleToggleTerminal ==
    /\ Mounted
    /\ terminal' = IF terminal.visible
                   THEN TerminalUnmounted(terminal.saved)
                   ELSE TerminalMounted(terminal.saved)
    /\ Called("handleToggleTerminal", "", "none")
    /\ UNCHANGED <<branchStates, currentBranch, activeFile, now, ai, provider>>
    /\ render

\* onChange of the input line
Terminal_onChange(value) ==
    /\ Mounted
    /\ terminal.visible
    /\ terminal' = [terminal EXCEPT !.input = value]
    /\ Called("Terminal_onChange", "", "none")
    /\ TerminalOnly

\* The updates of one handler are applied in the order they were queued:
\* setOutput([]) of processCommand comes before setOutput(newOutput), which
\* was built from the output of the render the handler belongs to.
handleKeyDown(key) ==
    /\ Mounted
    /\ terminal.visible
    /\ LET input == terminal.input
           output == terminal.output
           history == terminal.history
           historyIndex == terminal.historyIndex
           command == trim(input)
           done == processCommand(command, currentBranchState.fileSystem)
           response == done.response
           newOutput == output \o <<[type |-> "command", content |-> command]>>
                        \o (IF response # <<>>
                            THEN <<[type |-> "response", content |-> response]>>
                            ELSE <<>>)
           setOutput == (IF done.setOutput THEN << <<>> >> ELSE <<>>)
                        \o <<newOutput>>
           lastOutput == setOutput[Len(setOutput)]
           first == IF history = <<>> THEN <<>> ELSE history[1]
           newHistory == IF command # <<>> /\ command # first
                         THEN <<command>> \o history ELSE history
       IN  terminal' =
               CASE key = "Enter" ->
                        [terminal EXCEPT
                            !.output = lastOutput,
                            !.history = newHistory,
                            !.historyIndex = -1,
                            !.input = <<>>,
                            !.saved = saveTerminal(lastOutput, newHistory, @)]
                 [] key = "ArrowUp" ->
                        IF Len(history) > 0 /\ historyIndex < Len(history) - 1
                        THEN [terminal EXCEPT
                                 !.historyIndex = historyIndex + 1,
                                 !.input = history[historyIndex + 2]]
                        ELSE terminal
                 [] key = "ArrowDown" ->
                        IF historyIndex > 0
                        THEN [terminal EXCEPT
                                 !.historyIndex = historyIndex - 1,
                                 !.input = history[historyIndex]]
                        ELSE [terminal EXCEPT !.historyIndex = -1,
                                              !.input = <<>>]
                 [] OTHER -> terminal
    /\ Called("handleKeyDown", key, "none")
    /\ TerminalOnly

-----------------------------------------------------------------------------
(* Inline completions *)

\* A promise provideInlineCompletions returned is "debouncing" while its
\* timer is set, "cleared" once a later call cleared that timer, "fetching"
\* while the callback of the timer awaits getAiCodeCompletion, and
\* "suggestion" or "empty" once resolve was called with such an item list.
Resolved == {"suggestion", "empty"}

\* what getAiCodeCompletion can return: '' for a blank text before the cursor
\* and after an error of the service, else the text of the response
getAiCodeCompletion == {"", "completion"}

\* the editor asks the registered provider for completions at the cursor
provideInlineCompletions ==
    /\ Mounted
    /\ completionProviderRef # "none"
    /\ LET cleared == [c \in DOMAIN completions |->
                          IF c = debounceTimerRef /\ completions[c] = "debouncing"
                          THEN "cleared" ELSE completions[c]]
       IN  /\ completions' = Append(cleared, "debouncing")
           /\ debounceTimerRef' = Len(completions) + 1
    /\ Called("provideInlineCompletions", completionProviderRef, "none")
    /\ UNCHANGED <<branchStates, currentBranch, activeFile, now, err, ai,
                   localStorage, storageFull, terminal, completionProviderRef>>

\* 500 ms passed since the call c set its timer: the callback starts
timerFires(c) ==
    /\ c \in DOMAIN completions
    /\ completions[c] = "debouncing"
    /\ completions' = [completions EXCEPT ![c] = "fetching"]
    /\ lastCall' = [op |-> "timerFires", arg |-> "", alert |-> "none"]
    /\ UNCHANGED <<branchStates, currentBranch, activeFile, now, err, ai,
                   localStorage, storageFull, terminal, debounceTimerRef,
                   completionProviderRef, steps>>

\* the rest of the callback, after the await
completionReturns(c, suggestion, isCancellationRequested) ==
    /\ c \in DOMAIN completions
    /\ completions[c] = "fetching"
    /\ completions' = [completions EXCEPT ![c] =
                          IF isCancellationRequested \/ suggestion = ""
                          THEN "empty" ELSE "suggestion"]
    /\ lastCall' = [op |-> "completionReturns", arg |-> "", alert |-> "none"]
    /\ UNCHANGED <<branchStates, currentBranch, activeFile, now, err, ai,
                   localStorage, storageFull, terminal, debounceTimerRef,
                   completionProviderRef, steps>>

-----------------------------------------------------------------------------
(* The page and the storage of its origin *)

\* the page is loaded again: App mounts with the state getInitialState and
\* the activeFile initializer make from localStorage, renders, and its
\* persistence effects store every item; requests of the page left are lost
reload ==
    /\ steps < MaxSteps
    /\ LET initialAppState == getInitialState(localStorage)
           states == initialAppState.branches
           current == initialAppState.current
       IN  /\ branchStates' = states
           /\ currentBranch' = current
           /\ IF current \notin DOMAIN states
              THEN /\ activeFile' = Null
                   /\ err' = "TypeError"
                   /\ UNCHANGED localStorage
              ELSE LET file == initialActiveFile(states[current].fileSystem,
                                                 localStorage)
                       items == savedItems(states, current, file)
                   IN  /\ activeFile' = file
                       /\ IF storageFull /\ items # localStorage
                          THEN /\ err' = "QuotaExceededError"
                               /\ UNCHANGED localStorage
                          ELSE /\ err' = "none"
                               /\ localStorage' = items
    /\ aiOutput' = ""
    /\ isLoading' = FALSE
    /\ pending' = {}
    /\ terminal' = TerminalUnmounted(terminal.saved)
    /\ completions' = <<>>
    /\ debounceTimerRef' = 0
    /\ completionProviderRef' = "none"
    /\ Called("reload", "", "none")
    /\ UNCHANGED <<now, storageFull>>

\* another page of the origin, or the user, writes or removes an item
storageChanges(key, item) ==
    /\ steps < MaxSteps
    /\ localStorage' = [localStorage EXCEPT ![key] = item]
    /\ Called("storageChanges", key, "none")
    /\ UNCHANGED <<branchStates, currentBranch, activeFile, now, err, ai,
                   storageFull, terminal, provider, completionProviderRef>>

\* the storage of the origin reaches its quota
storageFills ==
    /\ steps < MaxSteps
    /\ ~storageFull
    /\ storageFull' = TRUE
    /\ Called("storageFills", "", "none")
    /\ UNCHANGED <<branchStates, currentBranch, activeFile, now, err, ai,
                   localStorage, terminal, provider, completionProviderRef>>

-----------------------------------------------------------------------------
(* Specification *)

Next ==
    \/ \E id \in FileIdInputs : handleFileSelect(id)
    \/ \E n \in {Cancelled} \cup {Typed(x) : x \in NameInputs \cup {<<>>}} :
           handleCreateFile(n, Typed("javascript"))
    \/ \E n \in {Cancelled} \cup {Typed(x) : x \in NameInputs \cup {<<>>}} :
           handleCreateFolder(n)
    \/ \E v \in {Undefined} \cup {Value(x) : x \in EditValues} :
           handleCodeChange(v)
    \/ \E id \in FileIdInputs : handleStage(id)
    \/ \E id \in FileIdInputs : handleUnstage(id)
    \/ handleStageAll
    \/ \E m \in Messages : handleCommit(m)
    \/ \E m \in Messages : GitPanel_handleCommit(m)
    \/ \E n \in {Cancelled} \cup {Typed(x) : x \in BranchNameInputs \cup {""}} :
           handleCreateBranch(n)
    \/ \E n \in BranchNameInputs : handleSwitchBranch(n)

Spec == Init /\ [][Next]_vars

\* The handlers as the panels invoke them: FileExplorer lists the files of the
\* tree, GitPanel lists unstagedFiles and stagedFileItems, disables "stage all"
\* when nothing is changed, offers allBranches, and commits through its own
\* handleCommit.
NextUI ==
    \/ \E id \in FileIdInputs \ {GhostId} : handleFileSelect(id)
    \/ \E n \in {Cancelled} \cup {Typed(x) : x \in NameInputs \cup {<<>>}} :
           handleCreateFile(n, Typed("javascript"))
    \/ \E n \in {Cancelled} \cup {Typed(x) : x \in NameInputs \cup {<<>>}} :
           handleCreateFolder(n)
    \/ \E v \in {Undefined} \cup {Value(x) : x \in EditValues} :
           activeFile # Null /\ handleCodeChange(v)
    \/ \E i \in DOMAIN unstagedFiles : handleStage(unstagedFiles[i].id)
    \/ \E f \in stagedFileItems : handleUnstage(f.id)
    \/ unstagedFiles # <<>> /\ handleStageAll
    \/ \E m \in Messages : GitPanel_handleCommit(m)
    \/ \E n \in {Cancelled} \cup {Typed(x) : x \in BranchNameInputs \cup {""}} :
           handleCreateBranch(n)
    \/ \E n \in allBranches : handleSwitchBranch(n)

SpecUI == Init /\ [][NextUI]_vars

\* The panels with the AI panel: requests are sent, their results arrive in
\* any order, and meanwhile files are selected, created and edited and
\* branches are created and switched.  AiPanel disables its question box
\* while isLoading; its action buttons are never disabled.
NextAI ==
    \/ \E id \in FileIdInputs \ {GhostId} : handleFileSelect(id)
    \/ \E n \in {Typed(x) : x \in NameInputs} :
           handleCreateFile(n, Typed("javascript"))
    \/ \E v \in {Value(x) : x \in EditValues} :
           activeFile # Null /\ handleCodeChange(v)
    \/ \E n \in {Typed(x) : x \in BranchNameInputs} : handleCreateBranch(n)
    \/ \E n \in allBranches : handleSwitchBranch(n)
    \/ \E f \in AiFeatures : handleAiAction(f)
    \/ \E q \in Questions : ~isLoading /\ handleAiQuery(q)
    \/ \E r \in pending : \E text \in Results(r) : aiResult(r, text)

SpecAI == Init /\ [][NextAI]_vars

\* The panels with the page and its storage: the page is loaded again at any
\* moment, other pages of the origin change the items, and the storage may
\* fill up.
NextStorage ==
    \/ \E n \in {Typed(x) : x \in NameInputs} :
           handleCreateFile(n, Typed("javascript"))
    \/ \E v \in {Value(x) : x \in EditValues} :
           activeFile # Null /\ handleCodeChange(v)
    \/ Mounted /\ unstagedFiles # <<>> /\ handleStageAll
    \/ \E m \in Messages : GitPanel_handleCommit(m)
    \/ \E n \in {Typed(x) : x \in StoredBranchNameInputs} :
           handleCreateBranch(n)
    \/ \E n \in allBranches : handleSwitchBranch(n)
    \/ reload
    \/ \E item \in {Null, Garbage} : storageChanges("branchStates", item)
    \/ \E item \in {Null} \cup {Word(n) : n \in StoredCurrentInputs} :
           storageChanges("currentBranch", item)
    \/ storageFills

SpecStorage == Init /\ [][NextStorage]_vars

\* The editor with its inline completions.  The timer of a call fires when
\* its 500 ms are over unless it was cleared, and getAiCodeCompletion returns
\* in every case (it catches the errors of the service): both are weakly
\* fair.  Neither waits for a handler, so neither counts as a step.
NextProvider ==
    \/ \E id \in FileIdInputs : handleFileSelect(id)
    \/ \E v \in {Value(x) : x \in EditValues} :
           activeFile # Null /\ handleCodeChange(v)
    \/ provideInlineCompletions
    \/ \E c \in DOMAIN completions : timerFires(c)
    \/ \E c \in DOMAIN completions : \E suggestion \in getAiCodeCompletion :
           \E isCancellationRequested \in BOOLEAN :
               completionReturns(c, suggestion, isCancellationRequested)

SpecProvider ==
    /\ Init
    /\ [][NextProvider]_vars
    /\ \A c \in 1..MaxSteps :
           /\ WF_vars(timerFires(c))
           /\ WF_vars(\E suggestion \in getAiCodeCompletion :
                          \E isCancellationRequested \in BOOLEAN :
                              completionReturns(c, suggestion,
                                                isCancellationRequested))

\* The terminal panel: shown and hidden, lines typed and keys pressed, with
\* files created meanwhile, the storage filling up and the page loaded again.
NextTerminal ==
    \/ handleToggleTerminal
    \/ \E value \in TerminalInputs : Terminal_onChange(value)
    \/ \E key \in KeyInputs : handleKeyDown(key)
    \/ \E n \in {Typed(x) : x \in NameInputs} :
           handleCreateFile(n, Typed("javascript"))
    \/ storageFills
    \/ reload

SpecTerminal == Init /\ [][NextTerminal]_vars

-----------------------------------------------------------------------------
(* Vocabulary of the claims *)

\* the step is an invocation of handler op
Invoked(op) == err = "none" /\ steps' = steps + 1 /\ lastCall'.op = op

\* the step is an invocation of handler op that raised no alert
Succeeded(op) == Invoked(op) /\ lastCall'.alert = "none"

blank(message) == trim(message) = <<>>

-----------------------------------------------------------------------------
(* C1 *)

\* C1: a successful commit(msg), with a non-empty staged set S and a non-blank
\* msg, in one step empties the staged set, leaves every file whose id was in
\* S with status unmodified, and puts the new commit, carrying msg, in front
\* of the previous log, which keeps its order.
C1_CommitAtomic ==
    [][ (Succeeded("handleCommit") /\ ~blank(lastCall'.arg)) =>
            LET prev == branchStates[currentBranch]
                next == branchStates'[currentBranch]
            IN  /\ prev.stagedFiles # {}
                /\ next.stagedFiles = {}
                /\ \A f \in Range(allFiles(next.fileSystem)) :
                       f.id \in prev.stagedFiles => f.gitStatus = "unmodified"
                /\ Len(next.commits) = Len(prev.commits) + 1
                /\ Head(next.commits).message = lastCall'.arg
                /\ Tail(next.commits) = prev.commits
      ]_vars

\* a commit has just put a file that was edited and staged back to unmodified
C1_Witness ==
    /\ lastCall.op = "handleCommit"
    /\ lastCall.alert = "none"
    /\ ~blank(lastCall.arg)
    /\ Len(currentBranchState.commits) = 1
    /\ Head(currentBranchState.commits).message = <<"fix">>
    /\ currentBranchState.stagedFiles = {}
    /\ \E f \in Range(allFiles(currentBranchState.fileSystem)) :
           f.content = "v1" /\ f.gitStatus = "unmodified"

-----------------------------------------------------------------------------
(* C2 *)

\* C2: commit(msg) invoked while the staged set of the current branch is empty
\* changes no tree, no staged set and no commit log of any branch, and not the
\* current branch name.
C2_CommitNothingStaged ==
    [][ ((Invoked("handleCommit") \/ Invoked("GitPanel.handleCommit"))
            /\ branchStates[currentBranch].stagedFiles = {}) =>
            /\ branchStates' = branchStates
            /\ currentBranch' = currentBranch
      ]_vars

\* commit was refused while the tree holds a changed file that is not staged
C2_Witness ==
    /\ lastCall.op = "handleCommit"
    /\ lastCall.alert = "No files staged to commit."
    /\ currentBranchState.stagedFiles = {}
    /\ allChangedFiles # <<>>

-----------------------------------------------------------------------------
(* C3 *)

\* C3: commit(message) with an empty or blank message is rejected even when
\* the staged set is not empty: no snapshot changes; and so no commit log
\* ever holds a commit with a blank message.
C3_BlankMessageRejected ==
    /\ [][ ((Invoked("handleCommit") \/ Invoked("GitPanel.handleCommit"))
               /\ blank(lastCall'.arg)) =>
               /\ branchStates' = branchStates
               /\ currentBranch' = currentBranch
         ]_vars
    /\ [](\A b \in DOMAIN branchStates :
             \A i \in DOMAIN branchStates[b].commits :
                 ~blank(branchStates[b].commits[i].message))

-----------------------------------------------------------------------------
(* C4 *)

\* C4: an edit changes the snapshot of no branch but the current one, so the
\* files of the parent of a fork keep their content and status while the
\* fork is edited; and a switch to another existing branch changes no
\* snapshot and leaves as active file, when one is open, the node that
\* branch's own tree holds for its id.
C4_BranchIsolation ==
    [][ /\ Invoked("handleCodeChange") =>
               /\ DOMAIN branchStates' = DOMAIN branchStates
               /\ currentBranch' = currentBranch
               /\ \A b \in DOMAIN branchStates \ {currentBranch} :
                      branchStates'[b] = branchStates[b]
        /\ (Invoked("handleSwitchBranch")
               /\ lastCall'.arg # currentBranch
               /\ lastCall'.arg \in DOMAIN branchStates) =>
               /\ branchStates' = branchStates
               /\ currentBranch' = lastCall'.arg
               /\ activeFile' # Null =>
                      activeFile' = findFileInTree(
                          branchStates[lastCall'.arg].fileSystem, activeFile'.id)
      ]_vars

\* after a fork to b2 and an edit there, the switch back to main shows the
\* content main had before the edit
C4_Witness ==
    /\ lastCall.op = "handleSwitchBranch"
    /\ currentBranch = "main"
    /\ "b2" \in DOMAIN branchStates
    /\ activeFile # Null
    /\ activeFile.id = "user-service-ts"
    /\ activeFile.content = "ts0"
    /\ activeFile.gitStatus = "unmodified"
    /\ findFileInTree(branchStates["b2"].fileSystem, "user-service-ts").content
           = "v1"

-----------------------------------------------------------------------------
(* C5 *)

\* C5: a successful createBranch(name) adds, under a name that was no branch,
\* a snapshot equal to the one of the branch current at the call (tree, staged
\* set and commit log), makes name the current branch, and changes no
\* snapshot that existed.
C5_CreateBranchCopies ==
    [][ Succeeded("handleCreateBranch") =>
            LET name == lastCall'.arg
            IN  /\ name \notin DOMAIN branchStates
                /\ DOMAIN branchStates' = DOMAIN branchStates \cup {name}
                /\ branchStates'[name] = branchStates[currentBranch]
                /\ currentBranch' = name
                /\ \A b \in DOMAIN branchStates :
                       branchStates'[b] = branchStates[b]
      ]_vars

\* a branch was just forked from one with a staged file and a commit
C5_Witness ==
    /\ lastCall.op = "handleCreateBranch"
    /\ lastCall.alert = "none"
    /\ currentBranch = "b2"
    /\ branchStates["b2"].stagedFiles # {}
    /\ branchStates["b2"].commits # <<>>
    /\ branchStates["b2"] = branchStates["main"]

-----------------------------------------------------------------------------
(* C6 *)

\* C6: stage, unstage, stageAll and commit change the staged set and the
\* commit log of no branch but the current one.
C6_GitOpsOnlyCurrent ==
    [][ (\E op \in {"handleStage", "handleUnstage", "handleStageAll",
                    "handleCommit", "GitPanel.handleCommit"} : Invoked(op)) =>
            /\ DOMAIN branchStates' = DOMAIN branchStates
            /\ currentBranch' = currentBranch
            /\ \A b \in DOMAIN branchStates \ {currentBranch} :
                   /\ branchStates'[b].stagedFiles = branchStates[b].stagedFiles
                   /\ branchStates'[b].commits = branchStates[b].commits
      ]_vars

\* a commit on the fork emptied its staged set and grew its log, while the
\* parent still holds what was staged at the fork and its shorter log
C6_Witness ==
    /\ lastCall.op = "handleCommit"
    /\ lastCall.alert = "none"
    /\ currentBranch = "b2"
    /\ branchStates["main"].stagedFiles # {}
    /\ branchStates["b2"].stagedFiles = {}
    /\ Len(branchStates["b2"].commits) = Len(branchStates["main"].commits) + 1

-----------------------------------------------------------------------------
(* C7 *)

\* C7: switchBranch(name) with the current name, or with a name that is no
\* key of the branch store, changes neither the current branch name nor a
\* snapshot nor the active file, and raises no error.
C7_SwitchNoOp ==
    [][ (Invoked("handleSwitchBranch")
            /\ (lastCall'.arg = currentBranch
                \/ lastCall'.arg \notin DOMAIN branchStates)) =>
            /\ currentBranch' = currentBranch
            /\ branchStates' = branchStates
            /\ activeFile' = activeFile
            /\ err' = "none"
      ]_vars

-----------------------------------------------------------------------------
(* C8 *)

\* C8: in every reachable state the current branch name is a key of the
\* snapshot map, and the map is not empty.
C8_CurrentIsKey ==
    /\ DOMAIN branchStates # {}
    /\ currentBranch \in DOMAIN branchStates

-----------------------------------------------------------------------------
(* C9 *)

\* C9: in every reachable state, every id in the staged set of every branch
\* resolves to a file of that branch's tree whose status is not unmodified.
C9_StagedResolveChanged ==
    \A b \in DOMAIN branchStates :
        \A id \in branchStates[b].stagedFiles :
            LET f == findFileInTree(branchStates[b].fileSystem, id)
            IN  f # Null /\ f.gitStatus # "unmodified"

-----------------------------------------------------------------------------
(* C10 *)

\* C10: stage(fileId) with a fileId that resolves to no file of the current
\* tree leaves the staged set unchanged.
C10_StageUnknownNoOp ==
    [][ (Invoked("handleStage")
            /\ findFileInTree(branchStates[currentBranch].fileSystem,
                              lastCall'.arg) = Null) =>
            branchStates'[currentBranch].stagedFiles
                = branchStates[currentBranch].stagedFiles
      ]_vars

-----------------------------------------------------------------------------
(* C11 *)

\* the step is an edit of the open file: handleCodeChange with a defined
\* value while a file is open
Edited ==
    /\ Invoked("handleCodeChange")
    /\ activeFile # Null
    /\ lastCall'.arg \in EditValues

\* C11: an edit of the open file, after any sequence of earlier operations,
\* sets the status its node has in the current branch's tree to modified when
\* that status was unmodified, and leaves it as it was when it was modified
\* or new.
C11_EditStatus ==
    [][ Edited =>
            LET before == findFileInTree(
                              branchStates[currentBranch].fileSystem,
                              activeFile.id)
                after == findFileInTree(
                             branchStates'[currentBranch].fileSystem,
                             activeFile.id)
            IN  before # Null =>
                    /\ after # Null
                    /\ after.gitStatus =
                           IF before.gitStatus = "unmodified" THEN "modified"
                           ELSE before.gitStatus
      ]_vars

-----------------------------------------------------------------------------
(* C12 *)

\* the cached active file, when one is open, has the content and the status
\* of the node find returns for its id in the tree of the current branch
cacheFresh(file, tree) ==
    file # Null =>
        LET node == findFileInTree(tree, file.id)
        IN  /\ node # Null
            /\ node.content = file.content
            /\ node.gitStatus = file.gitStatus

\* C12: after every edit and after every commit on the current branch the
\* cached active file, when one is open, has the same content and the same
\* status as the node find returns for its id in the current branch's tree.
C12_CacheFreshAfterEditAndCommit ==
    [][ (Edited \/ Succeeded("handleCommit")) =>
            cacheFresh(activeFile', branchStates'[currentBranch'].fileSystem)
      ]_vars

-----------------------------------------------------------------------------
(* C13 *)

\* C13: a switch to another existing branch while a file is open leaves as
\* active file the node the new branch's tree holds for the open file's id
\* when there is one; otherwise the node of the default file
\* 'user-service-ts' when the new tree holds it anywhere, and no file
\* otherwise.
C13_SwitchReresolves ==
    [][ (Invoked("handleSwitchBranch")
            /\ lastCall'.arg # currentBranch
            /\ lastCall'.arg \in DOMAIN branchStates
            /\ activeFile # Null) =>
            LET newTree == branchStates[lastCall'.arg].fileSystem
                own == findFileInTree(newTree, activeFile.id)
                default == findFileInTree(newTree, "user-service-ts")
            IN  activeFile' = IF own # Null THEN own ELSE default
      ]_vars

-----------------------------------------------------------------------------
(* C14 *)

\* the ids of every node of a tree, folders included, in tree order
RECURSIVE nodeIds(_)
nodeIds(item) ==
    IF item.type = "file" THEN <<item.id>>
    ELSE LET RECURSIVE each(_)
             each(i) ==
                 IF i > Len(item.children) THEN <<>>
                 ELSE nodeIds(item.children[i]) \o each(i + 1)
         IN  <<item.id>> \o each(1)

\* C14: in every tree of every reachable state, so in every tree built by
\* create-file and create-folder operations whose clock reads may return the
\* value of the previous read, no two nodes share an id.
C14_UniqueIds ==
    \A b \in DOMAIN branchStates :
        LET ids == nodeIds(branchStates[b].fileSystem)
        IN  \A i, j \in DOMAIN ids : ids[i] = ids[j] => i = j

-----------------------------------------------------------------------------
(* C15 *)

\* the step is the arrival of the result of a request that was sent while
\* another file was open than the one open now, or while a file was open and
\* none is open now
StaleResultArrives ==
    /\ Invoked("aiResult")
    /\ (activeFile = Null \/ activeFile.id # lastCall'.arg)

\* C15: the result of an AI action or query that arrives after the active
\* file changed (by a file selection, a file creation or a branch switch) is
\* discarded: it does not become the displayed AI output.
C15_StaleResultDiscarded ==
    [][ StaleResultArrives => aiOutput' = aiOutput ]_vars

-----------------------------------------------------------------------------
(* C16 *)

\* what getInitialState makes of the items the persistence effects write for
\* the state
loadedAfterSave ==
    getInitialState(savedItems(branchStates, currentBranch, activeFile))

\* C16: for every branch store the handlers reach, with any branch names
\* handleCreateBranch accepts, saving it and loading it back yields the same
\* branch names, the same current branch, and for every branch the same
\* tree, the same staged set and the same commits in the same order.
C16_SaveLoadRoundTrip ==
    err = "none" =>
        /\ loadedAfterSave.current = currentBranch
        /\ DOMAIN loadedAfterSave.branches = DOMAIN branchStates
        /\ \A b \in DOMAIN branchStates :
               b \in DOMAIN loadedAfterSave.branches =>
                   /\ loadedAfterSave.branches[b].fileSystem
                          = branchStates[b].fileSystem
                   /\ loadedAfterSave.branches[b].stagedFiles
                          = branchStates[b].stagedFiles
                   /\ loadedAfterSave.branches[b].commits
                          = branchStates[b].commits

-----------------------------------------------------------------------------
(* C17 *)

\* the step loads the page
Reloaded == steps' = steps + 1 /\ lastCall'.op = "reload"

\* the stored state is absent or corrupt: an item is missing, the text of
\* 'branchStates' is no JSON, or the stored current branch is no key of the
\* stored branches
absentOrCorrupt(storage) ==
    \/ storage["branchStates"].type = "null"
    \/ storage["currentBranch"].type = "null"
    \/ storage["branchStates"].type = "garbage"
    \/ /\ storage["branchStates"].type = "json"
       /\ storage["currentBranch"].type = "word"
       /\ storage["currentBranch"].value
              \notin DOMAIN storage["branchStates"].value

\* C17: a load from a stored state that is absent or corrupt (a missing
\* item, unparsable JSON, or a stored current branch that is no key of the
\* stored branches) yields the default store: the single branch 'main' with
\* the initial tree, nothing staged and no commits, and current = 'main'.
C17_LoadFallsBack ==
    [][ (Reloaded /\ absentOrCorrupt(localStorage)) =>
            /\ branchStates' = defaultState.branches
            /\ currentBranch' = defaultState.current
      ]_vars

-----------------------------------------------------------------------------
(* C18 *)

\* the step is a handler invocation whose save raises an error
SaveFails ==
    /\ err = "none"
    /\ steps' = steps + 1
    /\ lastCall'.op \notin {"reload", "storageChanges", "storageFills"}
    /\ setItemThrows

\* C18: a save that raises an error does not keep the application from
\* accepting and applying later operations (it stays mounted), and the state
\* change that triggered the save is not rolled back.
C18_SaveFailureNotFatal ==
    [][ SaveFails =>
            /\ err' = "none"
            /\ <<branchStates', currentBranch', activeFile'>>
                   # <<branchStates, currentBranch, activeFile>>
      ]_vars

-----------------------------------------------------------------------------
(* C19 *)

\* C19: createBranch(name) with an empty name (or a cancelled prompt), or
\* with a name that is already a branch name, changes neither the snapshot
\* map, nor a snapshot in it, nor the current branch name.
C19_CreateBranchRefused ==
    [][ (Invoked("handleCreateBranch")
            /\ (lastCall'.arg = "" \/ lastCall'.arg \in DOMAIN branchStates)) =>
            /\ branchStates' = branchStates
            /\ currentBranch' = currentBranch
            /\ lastCall'.alert # "none"
      ]_vars

\* the name of another branch, whose snapshot differs from the current one,
\* was just refused
C19_Witness ==
    /\ lastCall.op = "handleCreateBranch"
    /\ lastCall.alert = "Branch already exists."
    /\ lastCall.arg \in DOMAIN branchStates
    /\ lastCall.arg # currentBranch
    /\ branchStates[lastCall.arg] # currentBranchState

-----------------------------------------------------------------------------
(* C20 *)

\* the ids of the files of a tree whose status is not unmodified
changedIds(tree) ==
    {f.id : f \in {g \in Range(allFiles(tree)) : g.gitStatus # "unmodified"}}

\* C20: stageAll() makes the staged set of the current branch exactly the
\* set of the ids of the changed files of the current tree, whatever was
\* staged before, and changes nothing else; so a stageAll() that directly
\* follows a stageAll() changes nothing.
C20_StageAllReplaces ==
    [][ Invoked("handleStageAll") =>
            LET prev == branchStates[currentBranch]
            IN  /\ branchStates' =
                       [branchStates EXCEPT ![currentBranch] =
                           [prev EXCEPT !.stagedFiles =
                               changedIds(prev.fileSystem)]]
                /\ currentBranch' = currentBranch
                /\ lastCall.op = "handleStageAll" =>
                       branchStates' = branchStates
      ]_vars

\* stageAll has just staged the changed files of a tree that also holds
\* files that are not changed
C20_Witness ==
    /\ lastCall.op = "handleStageAll"
    /\ currentBranchState.stagedFiles = changedIds(currentBranchState.fileSystem)
    /\ currentBranchState.stagedFiles # {}
    /\ fileIdsOf(currentBranchState.fileSystem)
           # currentBranchState.stagedFiles

-----------------------------------------------------------------------------
(* C21 *)

\* C21: stage(fileId) for a file of the current tree makes the staged set
\* of the current branch the previous staged set plus fileId (so staging a
\* staged id changes nothing) and leaves the tree and the commit log, and
\* every other branch, as they were.
C21_StageSetSemantics ==
    [][ (Invoked("handleStage")
            /\ lastCall'.arg \in fileIdsOf(branchStates[currentBranch].fileSystem)) =>
            LET prev == branchStates[currentBranch]
            IN  /\ branchStates' =
                       [branchStates EXCEPT ![currentBranch] =
                           [prev EXCEPT !.stagedFiles =
                               prev.stagedFiles \cup {lastCall'.arg}]]
                /\ lastCall'.arg \in prev.stagedFiles =>
                       branchStates' = branchStates
      ]_vars

\* a second file of the tree was just staged, and the one staged before is
\* still staged
C21_Witness ==
    /\ lastCall.op = "handleStage"
    /\ lastCall.arg \in fileIdsOf(currentBranchState.fileSystem)
    /\ lastCall.arg \in currentBranchState.stagedFiles
    /\ \E id \in fileIdsOf(currentBranchState.fileSystem) \ {lastCall.arg} :
           id \in currentBranchState.stagedFiles

-----------------------------------------------------------------------------
(* C22 *)

\* C22: unstage(fileId) makes the staged set of the current branch the
\* previous staged set without fileId (so it changes nothing when fileId is
\* not staged) and changes no tree, so no status and no content of a file,
\* and no commit log.
C22_UnstageRemovesOne ==
    [][ Invoked("handleUnstage") =>
            LET prev == branchStates[currentBranch]
            IN  /\ branchStates' =
                       [branchStates EXCEPT ![currentBranch] =
                           [prev EXCEPT !.stagedFiles =
                               prev.stagedFiles \ {lastCall'.arg}]]
                /\ lastCall'.arg \notin prev.stagedFiles =>
                       branchStates' = branchStates
      ]_vars

\* one of two staged ids was just unstaged: the other one is still staged,
\* and the file unstaged keeps the status it had
C22_Witness ==
    /\ lastCall.op = "handleUnstage"
    /\ lastCall.arg \notin currentBranchState.stagedFiles
    /\ currentBranchState.stagedFiles # {}
    /\ \E f \in Range(allFiles(currentBranchState.fileSystem)) :
           f.id = lastCall.arg /\ f.gitStatus # "unmodified"

-----------------------------------------------------------------------------
(* C23 *)

\* the ids that match no file of a tree: the ids of its folders, and an id
\* that no node has
idsOfNoFile(tree) == (Range(nodeIds(tree)) \cup {GhostId}) \ fileIdsOf(tree)

\* C23: for every tree of every reachable state, every id that matches no
\* file of it (the id of a folder included) and every patch,
\* updateFileInTree returns a tree equal to its input: the same nodes with
\* the same fields and the same order of children.
C23_UpdateNoOp ==
    \A b \in DOMAIN branchStates :
        LET tree == branchStates[b].fileSystem
        IN  \A id \in idsOfNoFile(tree) : \A patch \in Patches :
                updateFileInTree(tree, id, patch) = tree

\* a tree that holds, besides the initial files, a folder and a file that
\* were created and a file that was edited
C23_Witness ==
    LET tree == currentBranchState.fileSystem
    IN  /\ err = "none"
        /\ "folder-0" \in idsOfNoFile(tree)
        /\ "file-0" \in fileIdsOf(tree)
        /\ \E f \in Range(allFiles(tree)) : f.content = "v1"

-----------------------------------------------------------------------------
(* C24 *)

\* C24: switchBranch(name) to an existing branch other than the current one
\* makes name the current branch and changes the tree, the staged set and
\* the commit log of no branch, the one left and the one entered included.
C24_SwitchChangesOnlyCurrent ==
    [][ (Invoked("handleSwitchBranch")
            /\ lastCall'.arg # currentBranch
            /\ lastCall'.arg \in DOMAIN branchStates) =>
            /\ currentBranch' = lastCall'.arg
            /\ err' = "none"
            /\ DOMAIN branchStates' = DOMAIN branchStates
            /\ \A b \in DOMAIN branchStates :
                   /\ branchStates'[b].fileSystem = branchStates[b].fileSystem
                   /\ branchStates'[b].stagedFiles = branchStates[b].stagedFiles
                   /\ branchStates'[b].commits = branchStates[b].commits
      ]_vars

\* main was just entered from b2, whose staged set holds an id while that of
\* main is empty
C24_Witness ==
    /\ lastCall.op = "handleSwitchBranch"
    /\ lastCall.arg = "main"
    /\ currentBranch = "main"
    /\ "b2" \in DOMAIN branchStates
    /\ branchStates["b2"].stagedFiles # {}
    /\ branchStates["main"].stagedFiles = {}

-----------------------------------------------------------------------------
(* C25 *)

\* C25: a successful commit leaves the files of the current tree in their
\* places (the same nodes in the same order in every folder), changes the
\* id, the name, the language and the content of no file, and changes the
\* status of no file whose id was not staged.
C25_CommitFrame ==
    [][ Succeeded("handleCommit") =>
            LET prev == branchStates[currentBranch]
                next == branchStates'[currentBranch]
                before == allFiles(prev.fileSystem)
                after == allFiles(next.fileSystem)
            IN  /\ nodeIds(next.fileSystem) = nodeIds(prev.fileSystem)
                /\ Len(after) = Len(before)
                /\ \A i \in DOMAIN before :
                       /\ after[i].id = before[i].id
                       /\ after[i].name = before[i].name
                       /\ after[i].language = before[i].language
                       /\ after[i].content = before[i].content
                       /\ before[i].id \notin prev.stagedFiles =>
                              after[i].gitStatus = before[i].gitStatus
      ]_vars

\* after a commit of a created file, the file that was edited and not
\* staged is still modified
C25_Witness ==
    /\ lastCall.op = "handleCommit"
    /\ lastCall.alert = "none"
    /\ \E f, g \in Range(allFiles(currentBranchState.fileSystem)) :
           /\ f.gitStatus = "modified"
           /\ f.content = "v1"
           /\ g.id = "file-0"
           /\ g.gitStatus = "unmodified"

-----------------------------------------------------------------------------
(* C26 *)

\* C26: in every state in which an AI action or query has been started and
\* has not returned yet, the loading flag is true; so while two requests
\* overlap the flag stays true until the last of them has returned.
C26_LoadingWhilePending ==
    (err = "none" /\ pending # {}) => isLoading = TRUE

-----------------------------------------------------------------------------
(* C27 *)

\* C27: every call of the inline-completion provider eventually resolves its
\* promise, with a suggestion or with an empty item list, also when a later
\* call follows inside the debounce window of 500 ms.
C27_EveryCallResolves ==
    \A c \in 1..MaxSteps :
        (c \in DOMAIN completions)
            ~> (c \in DOMAIN completions /\ completions[c] \in Resolved)

-----------------------------------------------------------------------------
(* C28 *)

\* the step is Enter pressed on an input line whose command word is cmd
Entered(cmd) ==
    /\ Invoked("handleKeyDown")
    /\ lastCall'.arg = "Enter"
    /\ trim(terminal.input) # <<>>
    /\ Head(trim(terminal.input)) = cmd

\* C28: after the command 'clear' is entered the output list of the terminal
\* is empty, whatever it held before.
C28_ClearEmptiesOutput ==
    [][Entered("clear") => terminal'.output = <<>>]_vars

====
